---- MODULE Spec2Model ----
(***************************************************************************)
(* Model of csv2ofx.py: the line repair preprocessor, the transaction      *)
(* extractor and the OFX generator, driven by the script's main block.     *)
(*                                                                         *)
(* Text is a sequence of one-character strings, so that split, strip,      *)
(* lower, strptime and float are computed character by character.         *)
(* A Python value that may be a str, None or a list is a record            *)
(* [k |-> "str" | "None" | "list", v |-> ...].                             *)
(* Sequences are 1-based here where Python's are 0-based; the row index    *)
(* that enumerate() yields is kept 0-based.                                *)
(*                                                                         *)
(* Input domain: the files have no quote character (csv.reader then splits *)
(* a line exactly at every ';'), amounts are plain decimals (no exponent,  *)
(* inf, nan or '_'), and all characters are encodable in cp1252.  md5 is   *)
(* taken as injective: a FITID is represented by the string that is        *)
(* hashed.                                                                 *)
(***************************************************************************)
EXTENDS Integers, Sequences, FiniteSets, TLC

VARIABLES arquivo, tipo_conta, pc, cabecalho, linhas_processadas,
          lista_transacoes, bank_id, acct_id, saida, excecao,
          ignoradas, lidos

vars == <<arquivo, tipo_conta, pc, cabecalho, linhas_processadas,
          lista_transacoes, bank_id, acct_id, saida, excecao,
          ignoradas, lidos>>

(***************************************************************************)
(* Bounds of the explored inputs.                                          *)
(***************************************************************************)
\* largest number of physical data lines of an input file
MaxLinhas == 2
\* number of data lines of the long files (row indices of two digits)
LinhasLongas == 11

(***************************************************************************)
(* Python values                                                           *)
(***************************************************************************)
PyStr(s) == [k |-> "str", v |-> s]

PyNone == [k |-> "None", v |-> <<>>]

PyList(l) == [k |-> "list", v |-> l]

(***************************************************************************)
(* str methods                                                             *)
(***************************************************************************)
IsSpace(c) == c \in {" ", "\t", "\n", "\r"}

IsDigit(c) == c \in {"0", "1", "2", "3", "4", "5", "6", "7", "8", "9"}

RECURSIVE LStrip(_)
LStrip(s) == IF s # <<>> /\ IsSpace(Head(s)) THEN LStrip(Tail(s)) ELSE s

RECURSIVE RStrip(_)
RStrip(s) ==
  IF s # <<>> /\ IsSpace(s[Len(s)]) THEN RStrip(SubSeq(s, 1, Len(s) - 1)) ELSE s

\* str.strip()
Strip(s) == RStrip(LStrip(s))

\* str.count(c) for a one-character c
Count(s, c) == Cardinality({i \in 1..Len(s) : s[i] = c})

\* position of the first c in s, or Len(s) + 1
RECURSIVE FindChar(_, _, _)
FindChar(s, c, i) ==
  IF i > Len(s) \/ s[i] = c THEN i ELSE FindChar(s, c, i + 1)

\* str.split(sep) for a one-character sep: ''.split(';') is ['']
RECURSIVE Split(_, _)
Split(s, sep) ==
  LET p == FindChar(s, sep, 1)
  IN IF p > Len(s) THEN <<s>>
     ELSE <<SubSeq(s, 1, p - 1)>> \o Split(SubSeq(s, p + 1, Len(s)), sep)

\* sep.join(parts)
RECURSIVE Join(_, _)
Join(parts, sep) ==
  IF parts = <<>> THEN <<>>
  ELSE IF Len(parts) = 1 THEN parts[1]
  ELSE parts[1] \o sep \o Join(Tail(parts), sep)

\* position of the first whitespace character of s, or Len(s) + 1
RECURSIVE FindSpace(_, _)
FindSpace(s, i) ==
  IF i > Len(s) \/ IsSpace(s[i]) THEN i ELSE FindSpace(s, i + 1)

\* str.split() without arguments: the maximal runs of non-whitespace
RECURSIVE SplitWs(_)
SplitWs(s) ==
  LET t == LStrip(s)
      p == FindSpace(t, 1)
  IN IF t = <<>> THEN <<>>
     ELSE <<SubSeq(t, 1, p - 1)>> \o SplitWs(SubSeq(t, p, Len(t)))

\* str.replace(a, b) for one-character a and b
Replace(s, a, b) == [i \in 1..Len(s) |-> IF s[i] = a THEN b ELSE s[i]]

Minusculas ==
  [c \in {"A", "B", "C", "D", "E", "F", "G", "H", "I", "J", "K", "L", "M", "N",
          "O", "P", "Q", "R", "S", "T", "U", "V", "W", "X", "Y", "Z",
          "Á", "Â", "Ã", "Ç", "É", "Ê", "Í", "Ó", "Ô", "Õ", "Ú"} |->
     CASE c = "A" -> "a" [] c = "B" -> "b" [] c = "C" -> "c" [] c = "D" -> "d"
       [] c = "E" -> "e" [] c = "F" -> "f" [] c = "G" -> "g" [] c = "H" -> "h"
       [] c = "I" -> "i" [] c = "J" -> "j" [] c = "K" -> "k" [] c = "L" -> "l"
       [] c = "M" -> "m" [] c = "N" -> "n" [] c = "O" -> "o" [] c = "P" -> "p"
       [] c = "Q" -> "q" [] c = "R" -> "r" [] c = "S" -> "s" [] c = "T" -> "t"
       [] c = "U" -> "u" [] c = "V" -> "v" [] c = "W" -> "w" [] c = "X" -> "x"
       [] c = "Y" -> "y" [] c = "Z" -> "z" [] c = "Á" -> "á" [] c = "Â" -> "â"
       [] c = "Ã" -> "ã" [] c = "Ç" -> "ç" [] c = "É" -> "é" [] c = "Ê" -> "ê"
       [] c = "Í" -> "í" [] c = "Ó" -> "ó" [] c = "Ô" -> "ô" [] c = "Õ" -> "õ"
       [] c = "Ú" -> "ú"]

\* str.lower()
Lower(s) ==
  [i \in 1..Len(s) |-> IF s[i] \in DOMAIN Minusculas THEN Minusculas[s[i]] ELSE s[i]]

\* value of a sequence of decimal digits
RECURSIVE DigitsVal(_)
DigitsVal(s) ==
  IF s = <<>> THEN 0
  ELSE 10 * DigitsVal(SubSeq(s, 1, Len(s) - 1))
       + (CHOOSE n \in 0..9 : <<"0", "1", "2", "3", "4", "5", "6", "7", "8", "9">>[n + 1] = s[Len(s)])

AllDigits(s) == \A i \in 1..Len(s) : IsDigit(s[i])

\* str(n) of a natural number
RECURSIVE StrNat(_)
StrNat(n) ==
  LET d == <<<<"0", "1", "2", "3", "4", "5", "6", "7", "8", "9">>[(n % 10) + 1]>>
  IN IF n < 10 THEN d ELSE StrNat(n \div 10) \o d

\* list.index(x), 1-based; 0 when x is not in the list
RECURSIVE IndexFrom(_, _, _)
IndexFrom(l, x, i) ==
  IF i > Len(l) THEN 0 ELSE IF l[i] = x THEN i ELSE IndexFrom(l, x, i + 1)

Index(l, x) == IndexFrom(l, x, 1)

(***************************************************************************)
(* preprocessar_csv_corrigindo_linhas                                      *)
(***************************************************************************)
\* open(caminho_arquivo, 'r') and f.readlines(): the exception raised, or "".
\* A file that exists but cannot be read raises PermissionError (an OSError)
\* or UnicodeDecodeError; neither is a FileNotFoundError.
ExcecaoAoLer(arq) ==
  CASE arq.estado = "ausente" -> "FileNotFoundError"
    [] arq.estado = "sem_permissao" -> "PermissionError"
    [] arq.estado = "nao_utf8" -> "UnicodeDecodeError"
    [] OTHER -> ""

\* the branch taken for a broken line when linhas_corrigidas is not empty
AnexarQuebrada(corrigidas, linha_limpa) ==
  LET n == Len(corrigidas)
      partes == Split(corrigidas[n], ";")
      m == Len(partes)
      novas == [partes EXCEPT ![m - 1] = @ \o <<" ">> \o Split(linha_limpa, ";")[1]]
  IN [corrigidas EXCEPT ![n] = Join(novas, <<";">>)]

\* one iteration of the loop over linhas_de_dados
CorrigirLinha(corrigidas, linha) ==
  LET linha_limpa == Strip(linha)
  IN IF linha_limpa = <<>> THEN corrigidas
     ELSE IF Count(linha_limpa, ";") < 2
          THEN IF corrigidas # <<>> THEN AnexarQuebrada(corrigidas, linha_limpa)
               ELSE corrigidas
          ELSE Append(corrigidas, linha_limpa)

RECURSIVE CorrigirLinhas(_, _)
CorrigirLinhas(corrigidas, linhas_de_dados) ==
  IF linhas_de_dados = <<>> THEN corrigidas
  ELSE CorrigirLinhas(CorrigirLinha(corrigidas, Head(linhas_de_dados)),
                      Tail(linhas_de_dados))

\* ret = "valor": (cabecalho, linhas_corrigidas); ret = "None": (None, None);
\* ret = "excecao": the exception leaves the function
preprocessar_csv_corrigindo_linhas(arq) ==
  LET e == ExcecaoAoLer(arq)
  IN IF e = "FileNotFoundError"
     THEN [ret |-> "None", cabecalho |-> <<>>, linhas |-> <<>>, excecao |-> ""]
     ELSE IF e # ""
     THEN [ret |-> "excecao", cabecalho |-> <<>>, linhas |-> <<>>, excecao |-> e]
     ELSE IF arq.linhas = <<>>
     THEN [ret |-> "None", cabecalho |-> <<>>, linhas |-> <<>>, excecao |-> ""]
     ELSE [ret |-> "valor",
           cabecalho |-> Strip(arq.linhas[1]),
           linhas |-> CorrigirLinhas(<<>>, Tail(arq.linhas)),
           excecao |-> ""]

(***************************************************************************)
(* analisar_transacoes: field resolution                                   *)
(***************************************************************************)
Campos == {"data", "descricao", "valor", "id_transacao", "bank_id", "agencia", "acct_id"}

MAPEAMENTO_CAMPOS ==
  [campo \in Campos |->
     CASE campo = "data" -> << <<"d", "a", "t", "a">>, <<"d", "a", "t", "e">> >>
       [] campo = "descricao" ->
            << <<"h", "i", "s", "t", "ó", "r", "i", "c", "o">>, <<"h", "i", "s", "t", "o", "r", "i", "c", "o">>, <<"d", "e", "s", "c", "r", "i", "ç", "ã", "o">>, <<"d", "e", "s", "c", "r", "i", "c", "a", "o">>,
               <<"d", "e", "s", "c", "r", "i", "p", "t", "i", "o", "n">>, <<"m", "e", "m", "o">> >>
       [] campo = "valor" -> << <<"v", "a", "l", "o", "r">>, <<"m", "o", "n", "t", "a", "n", "t", "e">>, <<"a", "m", "o", "u", "n", "t">>, <<"v", "a", "l", "u", "e">> >>
       [] campo = "id_transacao" ->
            << <<"i", "d">>, <<"i", "d", " ", "d", "a", " ", "t", "r", "a", "n", "s", "a", "ç", "ã", "o">>, <<"i", "d", "_", "d", "a", "_", "t", "r", "a", "n", "s", "a", "c", "a", "o">>, <<"c", "h", "e", "c", "k", "n", "u", "m">> >>
       [] campo = "bank_id" ->
            << <<"b", "a", "n", "c", "o">>, <<"b", "a", "n", "k", "i", "d">>, <<"c", "ó", "d", "i", "g", "o", " ", "d", "o", " ", "b", "a", "n", "c", "o">>, <<"c", "o", "d", "i", "g", "o", "_", "b", "a", "n", "c", "o">> >>
       [] campo = "agencia" -> << <<"a", "g", "ê", "n", "c", "i", "a">>, <<"a", "g", "e", "n", "c", "i", "a">> >>
       [] campo = "acct_id" ->
            << <<"c", "o", "n", "t", "a">>, <<"a", "c", "c", "t", "i", "d">>, <<"n", "ú", "m", "e", "r", "o", " ", "d", "a", " ", "c", "o", "n", "t", "a">>, <<"n", "u", "m", "e", "r", "o", "_", "d", "a", "_", "c", "o", "n", "t", "a">>,
               <<"c", "a", "r", "t", "ã", "o">>, <<"c", "a", "r", "t", "a", "o">> >>]

\* cabecalho_original = [h.strip() for h in cabecalho_str.split(';')]
CabecalhoOriginal(cabecalho_str) ==
  LET hs == Split(cabecalho_str, ";") IN [i \in 1..Len(hs) |-> Strip(hs[i])]

\* cabecalho_busca = [h.lower() for h in cabecalho_original]
CabecalhoBusca(original) == [i \in 1..Len(original) |-> Lower(original[i])]

\* the first nome_candidato of possiveis_nomes that is in cabecalho_busca
\* (its position in possiveis_nomes), or 0
RECURSIVE PrimeiroCandidato(_, _, _)
PrimeiroCandidato(possiveis_nomes, busca, k) ==
  IF k > Len(possiveis_nomes) THEN 0
  ELSE IF Index(busca, possiveis_nomes[k]) # 0 THEN k
  ELSE PrimeiroCandidato(possiveis_nomes, busca, k + 1)

\* mapa_final: {campo_interno: nome_original_do_cabecalho}
MapaFinal(original) ==
  LET busca == CabecalhoBusca(original)
      achado(campo) == PrimeiroCandidato(MAPEAMENTO_CAMPOS[campo], busca, 1)
  IN [campo \in {c \in Campos : achado(c) # 0} |->
        original[Index(busca, MAPEAMENTO_CAMPOS[campo][achado(campo)])]]

\* a variant that forgets to require the amount column
campos_obrigatorios_sem_valor == <<"data", "descricao">>

campos_obrigatorios == <<"data", "descricao", "valor">>

\* some campo of campos_obrigatorios is not in mapa_final
FaltaObrigatorio(mapa) ==
  \E j \in 1..Len(campos_obrigatorios) : campos_obrigatorios[j] \notin DOMAIN mapa

(***************************************************************************)
(* analisar_transacoes: account data of the first data line                *)
(***************************************************************************)
\* primeira_linha_dados[cabecalho_original.index(mapa_final[campo])].strip(),
\* None when the campo is not mapped or the index is out of range
DadoDaConta(campo, mapa, original, primeira_linha_dados) ==
  IF campo \notin DOMAIN mapa THEN PyNone
  ELSE LET index == Index(original, mapa[campo])
       IN IF index <= Len(primeira_linha_dados)
          THEN PyStr(Strip(primeira_linha_dados[index]))
          ELSE PyNone

\* truth value of a str-or-None
Truthy(x) == x.k = "str" /\ x.v # <<>>

AcctIdFinal(agencia_encontrada, conta_encontrada) ==
  IF Truthy(agencia_encontrada) /\ Truthy(conta_encontrada)
  THEN PyStr(agencia_encontrada.v \o <<"-">> \o conta_encontrada.v)
  ELSE IF Truthy(conta_encontrada) THEN conta_encontrada
  ELSE PyNone

(***************************************************************************)
(* csv.DictReader(linhas_csv, fieldnames=cabecalho_original, delimiter=';') *)
(***************************************************************************)
\* A dict is the sequence of its assignments <<key, value>>, in order; the
\* last assignment to a key is its value.
\* d = dict(zip(fieldnames, row)); a longer row puts the rest under
\* restkey = None, a shorter row gives restval = None to the missing keys.
LinhaDict(fieldnames, row) ==
  LET lf == Len(fieldnames)
      lr == Len(row)
      n == IF lf < lr THEN lf ELSE lr
      pares == [j \in 1..n |-> <<PyStr(fieldnames[j]), PyStr(row[j])>>]
  IN IF lf < lr THEN Append(pares, <<PyNone, PyList(SubSeq(row, lf + 1, lr))>>)
     ELSE pares \o [j \in 1..(lf - lr) |-> <<PyStr(fieldnames[lr + j]), PyNone>>]

DictHas(d, key) == \E j \in 1..Len(d) : d[j][1] = key

DictGet(d, key) ==
  d[CHOOSE j \in 1..Len(d) :
      d[j][1] = key /\ \A h \in (j + 1)..Len(d) : d[h][1] # key][2]

\* the rows the reader yields: csv.reader splits each line at ';', and
\* DictReader drops the rows that are [] (empty lines)
LeitorCsv(linhas_csv, fieldnames) ==
  LET naoVazias == SelectSeq(linhas_csv, LAMBDA l : l # <<>>)
  IN [j \in 1..Len(naoVazias) |-> LinhaDict(fieldnames, Split(naoVazias[j], ";"))]

(***************************************************************************)
(* datetime.strptime(data_str, '%d/%m/%Y') and float()                     *)
(***************************************************************************)
Bissexto(y) == (y % 4 = 0 /\ y % 100 # 0) \/ y % 400 = 0

DiasNoMes(y, m) ==
  IF m = 2 THEN (IF Bissexto(y) THEN 29 ELSE 28)
  ELSE IF m \in {4, 6, 9, 11} THEN 30 ELSE 31

\* %d: 3[0-1]|[1-2]\d|0[1-9]|[1-9]| [1-9]
CasaDia(s) ==
  \/ Len(s) \in 1..2 /\ AllDigits(s) /\ DigitsVal(s) \in 1..31
  \/ Len(s) = 2 /\ s[1] = " " /\ IsDigit(s[2]) /\ s[2] # "0"

\* %m: 1[0-2]|0[1-9]|[1-9]
CasaMes(s) == Len(s) \in 1..2 /\ AllDigits(s) /\ DigitsVal(s) \in 1..12

\* %Y: \d\d\d\d
CasaAno(s) == Len(s) = 4 /\ AllDigits(s)

\* ok = FALSE: ValueError; otherwise dt is the datetime (a date at midnight)
Strptime(data_str) ==
  LET p == Split(data_str, "/")
      casa == Len(p) = 3 /\ CasaDia(p[1]) /\ CasaMes(p[2]) /\ CasaAno(p[3])
      d == DigitsVal(LStrip(p[1]))
      m == DigitsVal(p[2])
      y == DigitsVal(p[3])
  IN IF casa /\ y >= 1 /\ d <= DiasNoMes(y, m)
     THEN [ok |-> TRUE, dt |-> [y |-> y, m |-> m, d |-> d]]
     ELSE [ok |-> FALSE, dt |-> [y |-> 0, m |-> 0, d |-> 0]]

\* the order of two datetime values is the order of these numbers
ChaveData(dt) == dt.y * 10000 + dt.m * 100 + dt.d

\* a float that is a decimal number: (-1)^neg * mag / 10^dec, without trailing
\* zeros in the fraction; float keeps the sign of zero
RECURSIVE Decimal(_, _, _)
Decimal(neg, mag, dec) ==
  IF dec > 0 /\ mag % 10 = 0 THEN Decimal(neg, mag \div 10, dec - 1)
  ELSE [neg |-> neg, mag |-> mag, dec |-> dec]

\* float(s): surrounding whitespace is ignored; [sign] digits [. digits] with
\* at least one digit.  ok = FALSE: ValueError
Float(s) ==
  LET t == Strip(s)
      sinal == t # <<>> /\ t[1] \in {"+", "-"}
      corpo == IF sinal THEN Tail(t) ELSE t
      p == Split(corpo, ".")
      int == p[1]
      frac == IF Len(p) = 2 THEN p[2] ELSE <<>>
      casa == Len(p) \in 1..2 /\ AllDigits(int) /\ AllDigits(frac)
              /\ Len(int) + Len(frac) > 0
  IN IF casa
     THEN [ok |-> TRUE,
           v |-> Decimal(sinal /\ t[1] = "-", DigitsVal(int \o frac), Len(frac))]
     ELSE [ok |-> FALSE, v |-> Decimal(FALSE, 0, 0)]

\* -valor_float
Negativo(v) == [v EXCEPT !.neg = ~@]

\* valor > 0
Positivo(v) == ~v.neg /\ v.mag > 0

(***************************************************************************)
(* analisar_transacoes: the body of the loop over the reader's rows        *)
(***************************************************************************)
SemTransacao == <<>>

\* ' '.join(descricao.replace('*', ' ').split())
DescricaoLimpa(descricao) == Join(SplitWs(Replace(descricao, "*", " ")), <<" ">>)

\* the text given to hashlib.md5: f"{data_str}{descricao}{valor_str}{i}"
TextoFitid(data_str, descricao, valor_str, i) ==
  data_str \o descricao \o valor_str \o StrNat(i)

\* a variant with the test of the account type inverted
ValorComSinalInvertido(valor_float, tipo) ==
  IF tipo = "banco" THEN Negativo(valor_float) ELSE valor_float

\* valor_float after the sign rule of the account type
ValorComSinal(valor_float, tipo) ==
  IF tipo = "credito" THEN Negativo(valor_float) ELSE valor_float

\* linha.get(mapa_final.get('id_transacao'), '')
IdTransacao(linha, mapa) ==
  LET chave == IF "id_transacao" \in DOMAIN mapa
               THEN PyStr(mapa["id_transacao"]) ELSE PyNone
  IN IF DictHas(linha, chave) THEN DictGet(linha, chave) ELSE PyStr(<<>>)

\* The try block for row i.  res = "ok": t is appended; res = "ignorada": one
\* of ValueError, IndexError, KeyError was caught and the row is skipped;
\* res = "excecao": another exception leaves analisar_transacoes.
\* The statements run in the order of the source, so the first one that
\* raises decides.
ProcessarLinha(i, linha, mapa, tipo) ==
  LET falta(campo) == campo \notin DOMAIN mapa \/ ~DictHas(linha, PyStr(mapa[campo]))
      le(campo) == DictGet(linha, PyStr(mapa[campo]))
      sai(r, e) == [res |-> r, excecao |-> e, t |-> SemTransacao]
  IN IF falta("data") THEN sai("ignorada", "KeyError")
     ELSE IF falta("descricao") THEN sai("ignorada", "KeyError")
     ELSE IF le("descricao").k # "str" THEN sai("excecao", "AttributeError")
     ELSE IF falta("valor") THEN sai("ignorada", "KeyError")
     ELSE LET data_str == le("data")
              descricao == Strip(le("descricao").v)
              valor_str == le("valor")
              id_transacao == IdTransacao(linha, mapa)
          IN IF data_str.k # "str" THEN sai("excecao", "TypeError")
             ELSE IF ~Strptime(data_str.v).ok THEN sai("ignorada", "ValueError")
             ELSE IF valor_str.k # "str" THEN sai("excecao", "AttributeError")
             ELSE IF ~Float(Replace(valor_str.v, ",", ".")).ok
                  THEN sai("ignorada", "ValueError")
             ELSE [res |-> "ok", excecao |-> "",
                   t |-> [data |-> Strptime(data_str.v).dt,
                          descricao |-> DescricaoLimpa(descricao),
                          valor |-> ValorComSinal(Float(Replace(valor_str.v, ",", ".")).v, tipo),
                          id_transacao |-> id_transacao,
                          fitid |-> TextoFitid(data_str.v, descricao, valor_str.v, i),
                          \* not a key of the source's dict: the row index i
                          linha |-> i]]

\* what row i gave for the three mandatory fields (None: PyNone), for the
\* properties only
Lido(linha, mapa) ==
  LET le(campo) == IF campo \in DOMAIN mapa /\ DictHas(linha, PyStr(mapa[campo]))
                   THEN DictGet(linha, PyStr(mapa[campo])) ELSE PyNone
  IN [data_str |-> le("data"), descricao |-> le("descricao"), valor_str |-> le("valor")]

\* the accumulated result after the try block of row i gave r
AposLinha(ac, i, r) ==
  IF r.res = "excecao" THEN [ac EXCEPT !.excecao = r.excecao]
  ELSE IF r.res = "ok" THEN [ac EXCEPT !.transacoes = Append(@, r.t)]
  ELSE [ac EXCEPT !.ignoradas = @ \cup {i}]

\* for i, linha in enumerate(leitor_csv), from row i (0-based) on; an
\* exception that is not caught ends the loop
RECURSIVE LacoLinhas(_, _, _, _, _)
LacoLinhas(leitor, i, mapa, tipo, ac) ==
  IF i >= Len(leitor) \/ ac.excecao # "" THEN ac
  ELSE LacoLinhas(leitor, i + 1, mapa, tipo,
                  AposLinha(ac, i, ProcessarLinha(i, leitor[i + 1], mapa, tipo)))

\* a variant of the insertion that is not stable: t goes before the elements
\* of its own date
InserirPorDataInstavel(ordenadas, t) ==
  LET antes == SelectSeq(ordenadas, LAMBDA u : ChaveData(u.data) < ChaveData(t.data))
      depois == SelectSeq(ordenadas, LAMBDA u : ChaveData(u.data) >= ChaveData(t.data))
  IN antes \o <<t>> \o depois

\* list.sort(key=lambda t: t['data']) is stable: t goes after every element
\* whose date is not later
InserirPorData(ordenadas, t) ==
  LET antes == SelectSeq(ordenadas, LAMBDA u : ChaveData(u.data) <= ChaveData(t.data))
      depois == SelectSeq(ordenadas, LAMBDA u : ChaveData(u.data) > ChaveData(t.data))
  IN antes \o <<t>> \o depois

RECURSIVE OrdenarPorData(_)
OrdenarPorData(transacoes) ==
  IF transacoes = <<>> THEN <<>>
  ELSE InserirPorData(OrdenarPorData(SubSeq(transacoes, 1, Len(transacoes) - 1)),
                      transacoes[Len(transacoes)])

(***************************************************************************)
(* analisar_transacoes                                                     *)
(***************************************************************************)
\* excecao = "": the function returns (transacoes, bank_id, acct_id);
\* otherwise the named exception leaves it.  ignoradas and lidos are kept
\* for the properties.
analisar_transacoes(cabecalho_str, linhas_csv, tipo) ==
  LET cabecalho_original == CabecalhoOriginal(cabecalho_str)
      mapa_final == MapaFinal(cabecalho_original)
      primeira_linha_dados == Split(linhas_csv[1], ";")
      dado(campo) ==
        IF linhas_csv = <<>> THEN PyNone
        ELSE DadoDaConta(campo, mapa_final, cabecalho_original, primeira_linha_dados)
      leitor_csv == LeitorCsv(linhas_csv, cabecalho_original)
      laco == LacoLinhas(leitor_csv, 0, mapa_final, tipo,
                         [transacoes |-> <<>>, ignoradas |-> {}, excecao |-> ""])
      lido == [j \in 1..Len(leitor_csv) |-> Lido(leitor_csv[j], mapa_final)]
  IN IF FaltaObrigatorio(mapa_final)
     THEN [excecao |-> "", transacoes |-> <<>>, bank_id |-> PyNone, acct_id |-> PyNone,
           ignoradas |-> {}, lidos |-> <<>>]
     ELSE [laco EXCEPT !.transacoes = OrdenarPorData(@)]
          @@ [bank_id |-> dado("bank_id"),
              acct_id |-> AcctIdFinal(dado("agencia"), dado("acct_id")),
              lidos |-> lido]

(***************************************************************************)
(* gerar_ofx                                                               *)
(***************************************************************************)
\* the decimal digits of n, padded with zeros to the width w
RECURSIVE ZeroPad(_, _)
ZeroPad(s, w) == IF Len(s) >= w THEN s ELSE ZeroPad(<<"0">> \o s, w)

\* strftime('%Y%m%d')
Strftime(dt) ==
  ZeroPad(StrNat(dt.y), 4) \o ZeroPad(StrNat(dt.m), 2) \o ZeroPad(StrNat(dt.d), 2)

RECURSIVE Pot10(_)
Pot10(n) == IF n = 0 THEN 1 ELSE 10 * Pot10(n - 1)

\* f"{valor:.2f}".replace('.', ','): round(|valor| * 100), half to even (the
\* rounding acts on the decimal value; amounts of at most two decimals are
\* not rounded at all)
ValorOfx(valor) ==
  LET p == Pot10(IF valor.dec > 2 THEN valor.dec - 2 ELSE 0)
      q == valor.mag \div p
      r == valor.mag % p
      centavos == IF valor.dec <= 2 THEN valor.mag * Pot10(2 - valor.dec)
                  ELSE IF 2 * r > p \/ (2 * r = p /\ q % 2 = 1) THEN q + 1 ELSE q
  IN (IF valor.neg THEN <<"-">> ELSE <<>>)
     \o StrNat(centavos \div 100) \o <<",">> \o ZeroPad(StrNat(centavos % 100), 2)

\* "CREDIT" if t['valor'] > 0 else "DEBIT"
TipoTransacao(valor) == IF Positivo(valor) THEN "CREDIT" ELSE "DEBIT"

\* str(x) as str.format renders a field value
RECURSIVE ReprLista(_)
ReprLista(l) ==
  IF l = <<>> THEN <<>>
  ELSE <<"'">> \o l[1] \o <<"'">>
       \o (IF Len(l) > 1 THEN <<",", " ">> ELSE <<>>) \o ReprLista(Tail(l))

Formatado(x) ==
  CASE x.k = "str" -> x.v
    [] x.k = "None" -> <<"N", "o", "n", "e">>
    [] x.k = "list" -> <<"[">> \o ReprLista(x.v) \o <<"]">>

\* one STMTTRN block
Stmttrn(t) ==
  [trntype |-> TipoTransacao(t.valor),
   dtposted |-> Strftime(t.data),
   trnamt |-> ValorOfx(t.valor),
   fitid |-> t.fitid,
   checknum |-> Formatado(t.id_transacao),
   memo |-> t.descricao]

SemArquivo == [escrito |-> FALSE]

\* the file written, or SemArquivo when transacoes is empty
gerar_ofx(transacoes, tipo, bankid, acctid) ==
  IF transacoes = <<>> THEN SemArquivo
  ELSE [escrito |-> TRUE,
        dtserver |-> Strftime(transacoes[Len(transacoes)].data),
        bankid |-> IF tipo = "credito" THEN <<>>
                   ELSE IF bankid.k # "None" THEN bankid.v ELSE <<"0", "0", "0">>,
        acctid |-> IF acctid.k # "None" THEN acctid.v
                   ELSE IF tipo = "credito" THEN <<"X", "X", "X", "X", "-", "C", "A", "R", "T", "A", "O", "-", "N", "A", "O", "-", "D", "E", "F", "I", "N", "I", "D", "O">>
                   ELSE <<"X", "X", "X", "X", "-", "C", "O", "N", "T", "A", "-", "N", "A", "O", "-", "D", "E", "F", "I", "N", "I", "D", "A">>,
        dtstart |-> Strftime(transacoes[1].data),
        dtend |-> Strftime(transacoes[Len(transacoes)].data),
        stmttrn |-> [j \in 1..Len(transacoes) |-> Stmttrn(transacoes[j])]]

(***************************************************************************)
(* Inputs                                                                  *)
(***************************************************************************)
\* first lines of the explored files
Cabecalhos ==
  { <<"D", "a", "t", "a", ";", "H", "i", "s", "t", "ó", "r", "i", "c", "o", ";", "V", "a", "l", "o", "r">>,
    <<"v", "a", "l", "o", "r", ";", "H", "I", "S", "T", "O", "R", "I", "C", "O", ";", "d", "a", "t", "e">>,
    <<"D", "a", "t", "e", ";", "D", "a", "t", "a", ";", "M", "e", "m", "o", ";", "V", "a", "l", "o", "r">>,
    <<"D", "a", "t", "a", ";", "D", "a", "t", "a", ";", "H", "i", "s", "t", "ó", "r", "i", "c", "o", ";", "V", "a", "l", "o", "r">>,
    <<"D", "a", "t", "a", ";", "H", "i", "s", "t", "ó", "r", "i", "c", "o", ";", "V", "a", "l", "o", "r", ";", "I", "d">>,
    <<"D", "a", "t", "a", ";", "H", "i", "s", "t", "ó", "r", "i", "c", "o", ";", "I", "d", ";", "V", "a", "l", "o", "r">>,
    <<"D", "a", "t", "a", ";", " ", "M", "e", "m", "o", " ", ";", "V", "a", "l", "o", "r", ";", "C", "o", "n", "t", "a", ";", "A", "g", "ê", "n", "c", "i", "a", ";", "B", "A", "N", "C", "O">>,
    <<"B", "a", "n", "c", "o", ";", "D", "a", "t", "a", ";", "H", "i", "s", "t", "ó", "r", "i", "c", "o">>,
    <<>> }

\* data lines of the explored files: well-formed rows, rows with a bad date or
\* a bad amount, rows of more or fewer cells than the header, broken lines
\* (fewer than two ';') and blank lines
LinhasDados ==
  { <<"0", "1", "/", "0", "3", "/", "2", "0", "2", "4", ";", "L", "o", "j", "a", " ", "X", ";", "1", "5", "0", ",", "0", "0">>,
    <<"1", "5", "/", "0", "2", "/", "2", "0", "2", "4", ";", "P", "i", "x", " ", "*", " ", "a", "b", ";", "-", "2", "0", ",", "5">>,
    <<"3", "1", "/", "0", "2", "/", "2", "0", "2", "4", ";", "x", ";", "1">>,
    <<"1", "/", "3", "/", "2", "0", "2", "4", ";", "y", ";", "a", "b", "c">>,
    <<"0", "1", "/", "0", "3", "/", "2", "0", "2", "4", ";", "w", ";", "0">>,
    <<"1", "5", "/", "0", "2", "/", "2", "0", "2", "4", ";", "z", ";", "7", ";", "I", "D", "9">>,
    <<"0", "1", "/", "0", "3", "/", "2", "0", "2", "4", ";", "1", "5", "/", "0", "2", "/", "2", "0", "2", "4", ";", "z", ";", "7">>,
    <<"7", ",", "5", ";", "k", ";", "0", "2", "/", "0", "1", "/", "2", "0", "2", "4">>,
    <<"1", "5", "/", "0", "2", "/", "2", "0", "2", "4", ";", "z", ";", "7", ";", "C", "1", ";", "A", "2", ";", "B", "3">>,
    <<"c", "o", "n", "t">>,
    <<"m", "a", "i", "s", ";", "r", "e", "s", "t", "o">>,
    <<" ">> }

\* data lines of the long files
LinhasDadosLongas == { <<"1", "/", "1", "/", "2", "0", "2", "4", ";", "x", ";", "1", "1">>, <<"1", "/", "1", "/", "2", "0", "2", "4", ";", "x", ";", "1">> }

SeqsAte(S, n) == UNION {[1..k -> S] : k \in 0..n}

\* f.readlines(): every line ends with its newline
ComoLinhas(cab, dados) ==
  <<cab \o <<"\n">>>> \o [j \in 1..Len(dados) |-> dados[j] \o <<"\n">>]

Arquivos ==
  {[estado |-> "ok", linhas |-> ComoLinhas(c, d)] :
      c \in Cabecalhos, d \in SeqsAte(LinhasDados, MaxLinhas)}
  \cup {[estado |-> "ok", linhas |-> ComoLinhas(<<"D", "a", "t", "a", ";", "H", "i", "s", "t", "ó", "r", "i", "c", "o", ";", "V", "a", "l", "o", "r">>, d)] :
          d \in [1..LinhasLongas -> LinhasDadosLongas]}
  \cup {[estado |-> e, linhas |-> <<>>] : e \in {"ok", "ausente", "sem_permissao", "nao_utf8"}}

(***************************************************************************)
(* The script's main block                                                 *)
(***************************************************************************)
Indefinido == [k |-> "indefinido", v |-> <<>>]

Init ==
  /\ arquivo \in Arquivos
  /\ tipo_conta \in {"banco", "credito"}
  /\ pc = "inicio"
  /\ cabecalho = Indefinido
  /\ linhas_processadas = Indefinido
  /\ lista_transacoes = Indefinido
  /\ bank_id = Indefinido
  /\ acct_id = Indefinido
  /\ saida = SemArquivo
  /\ excecao = ""
  /\ ignoradas = {}
  /\ lidos = <<>>

\* if not os.path.exists(args.arquivo_entrada): sys.exit(1)
VerificarArquivo ==
  /\ pc = "inicio"
  /\ pc' = IF arquivo.estado = "ausente" THEN "exit1" ELSE "preprocessar"
  /\ UNCHANGED <<arquivo, tipo_conta, cabecalho, linhas_processadas, lista_transacoes,
                 bank_id, acct_id, saida, excecao, ignoradas, lidos>>

\* the environment: the file is removed between the existence check and open()
RemoverArquivo ==
  /\ pc = "preprocessar"
  /\ arquivo.estado # "ausente"
  /\ arquivo' = [estado |-> "ausente", linhas |-> <<>>]
  /\ UNCHANGED <<tipo_conta, pc, cabecalho, linhas_processadas, lista_transacoes,
                 bank_id, acct_id, saida, excecao, ignoradas, lidos>>

\* cabecalho, linhas_processadas = preprocessar_csv_corrigindo_linhas(...)
\* and the test "if cabecalho and linhas_processadas"
Preprocessar ==
  /\ pc = "preprocessar"
  /\ \E r \in {preprocessar_csv_corrigindo_linhas(arquivo)} :
        /\ cabecalho' = IF r.ret = "valor" THEN PyStr(r.cabecalho)
                        ELSE IF r.ret = "None" THEN PyNone ELSE cabecalho
        /\ linhas_processadas' = IF r.ret = "valor" THEN PyList(r.linhas)
                                 ELSE IF r.ret = "None" THEN PyNone
                                 ELSE linhas_processadas
        /\ excecao' = r.excecao
        /\ pc' = IF r.ret = "excecao" THEN "erro"
                 ELSE IF r.ret = "valor" /\ r.cabecalho # <<>> /\ r.linhas # <<>>
                 THEN "analisar" ELSE "fim"
  /\ UNCHANGED <<arquivo, tipo_conta, lista_transacoes, bank_id, acct_id, saida,
                 ignoradas, lidos>>

\* lista_transacoes, bank_id, acct_id = analisar_transacoes(...)
Analisar ==
  /\ pc = "analisar"
  /\ \E r \in {analisar_transacoes(cabecalho.v, linhas_processadas.v, tipo_conta)} :
        /\ excecao' = r.excecao
        /\ pc' = IF r.excecao # "" THEN "erro" ELSE "gerar"
        /\ lista_transacoes' = IF r.excecao # "" THEN lista_transacoes
                               ELSE PyList(r.transacoes)
        /\ bank_id' = IF r.excecao # "" THEN bank_id ELSE r.bank_id
        /\ acct_id' = IF r.excecao # "" THEN acct_id ELSE r.acct_id
        /\ ignoradas' = r.ignoradas
        /\ lidos' = r.lidos
  /\ UNCHANGED <<arquivo, tipo_conta, cabecalho, linhas_processadas, saida>>

\* gerar_ofx(lista_transacoes, arquivo_ofx_saida, args.tipo_conta, bank_id, acct_id)
GerarOfx ==
  /\ pc = "gerar"
  /\ saida' = gerar_ofx(lista_transacoes.v, tipo_conta, bank_id, acct_id)
  /\ pc' = "fim"
  /\ UNCHANGED <<arquivo, tipo_conta, cabecalho, linhas_processadas, lista_transacoes,
                 bank_id, acct_id, excecao, ignoradas, lidos>>

Next == VerificarArquivo \/ RemoverArquivo \/ Preprocessar \/ Analisar \/ GerarOfx

Spec == Init /\ [][Next]_vars

(***************************************************************************)
(* Properties                                                              *)
(***************************************************************************)
\* preprocessar_csv_corrigindo_linhas returned a header and data lines, both
\* non-empty, and analisar_transacoes has been called on them
AnaliseChamada ==
  /\ cabecalho.k = "str" /\ cabecalho.v # <<>>
  /\ linhas_processadas.k = "list" /\ linhas_processadas.v # <<>>
  /\ pc # "analisar"

\* analisar_transacoes returned its tuple
AnaliseRetornou == lista_transacoes.k = "list"

\* the run is over: normally, by sys.exit(1), or by an uncaught exception
Terminou == pc \in {"fim", "exit1", "erro"}

\* the header columns, trimmed, as analisar_transacoes sees them
Colunas == CabecalhoOriginal(cabecalho.v)

\* the cells of repaired data line j (1-based)
Celulas(j) == Split(linhas_processadas.v[j], ";")

\* campo resolves: some column's lower-cased name is one of its spellings
Resolve(campo) ==
  \E j \in 1..Len(Colunas), k \in 1..Len(MAPEAMENTO_CAMPOS[campo]) :
     Lower(Colunas[j]) = MAPEAMENTO_CAMPOS[campo][k]

\* the column of campo: the first column whose lower-cased name is the first
\* spelling, in the listed order, that some column has
ColunaDe(campo) ==
  LET nomes == MAPEAMENTO_CAMPOS[campo]
      tem(k) == \E j \in 1..Len(Colunas) : Lower(Colunas[j]) = nomes[k]
      k1 == CHOOSE k \in 1..Len(nomes) : tem(k) /\ \A h \in 1..(k - 1) : ~tem(h)
  IN CHOOSE j \in 1..Len(Colunas) :
       /\ Lower(Colunas[j]) = nomes[k1]
       /\ \A h \in 1..(j - 1) : Lower(Colunas[h]) # nomes[k1]

ObrigatoriosResolvem == Resolve("data") /\ Resolve("descricao") /\ Resolve("valor")

\* the entries of the output: the STMTTRN blocks written, none without a file
Entradas == IF saida.escrito THEN saida.stmttrn ELSE <<>>

\* row j (1-based) lacks the cell of a mandatory column, has a date that is not
\* day/month/year, or an amount that is not a number
LinhaRuim(j) ==
  \/ \E c \in {"data", "descricao", "valor"} : Len(Celulas(j)) < ColunaDe(c)
  \/ ~Strptime(Celulas(j)[ColunaDe("data")]).ok
  \/ ~Float(Replace(Celulas(j)[ColunaDe("valor")], ",", ".")).ok

\* C1: once analisar_transacoes is called with a header in which date,
\* description and amount resolve, it returns a transaction list (no exception
\* leaves it), and every row with a missing mandatory cell, a bad date or a
\* bad amount is skipped.
C1_LinhaRuimIgnorada ==
  (AnaliseChamada /\ ObrigatoriosResolvem) =>
     /\ pc # "erro"
     /\ AnaliseRetornou
     /\ \A j \in 1..Len(linhas_processadas.v) : LinhaRuim(j) => (j - 1) \in ignoradas

\* the repair as C2 describes it: the entire content of a broken line goes,
\* after one space, to the second-to-last field of the last accepted line
RECURSIVE ReparoInteiro(_, _)
ReparoInteiro(aceitas, linhas) ==
  IF linhas = <<>> THEN aceitas
  ELSE LET l == Strip(Head(linhas))
           n == Len(aceitas)
           campos == Split(aceitas[n], ";")
           m == Len(campos)
       IN ReparoInteiro(
            IF l = <<>> THEN aceitas
            ELSE IF Count(l, ";") >= 2 THEN Append(aceitas, l)
            ELSE IF aceitas = <<>> THEN aceitas
            ELSE [aceitas EXCEPT ![n] =
                    Join([campos EXCEPT ![m - 1] = @ \o <<" ">> \o l], <<";">>)],
            Tail(linhas))

\* C2: every non-blank data line with fewer than two ';' that follows an
\* accepted line has its entire content appended, after one space, to the
\* second-to-last field of the most recent accepted line, and is no line of
\* the result; nothing else of the accepted lines changes.
C2_QuebradaAnexadaInteira ==
  linhas_processadas.k = "list" =>
     linhas_processadas.v = ReparoInteiro(<<>>, Tail(arquivo.linhas))

\* C3: each mandatory field resolves to the first column whose lower-cased
\* name is the first matching spelling, and the value read for it in every
\* row that has that cell is the cell at that column's position.
C3_ValorLidoDaPrimeiraColuna ==
  (AnaliseChamada /\ ObrigatoriosResolvem) =>
     \A j \in 1..Len(lidos) :
        /\ Len(Celulas(j)) >= ColunaDe("data") =>
              lidos[j].data_str = PyStr(Celulas(j)[ColunaDe("data")])
        /\ Len(Celulas(j)) >= ColunaDe("descricao") =>
              lidos[j].descricao = PyStr(Celulas(j)[ColunaDe("descricao")])
        /\ Len(Celulas(j)) >= ColunaDe("valor") =>
              lidos[j].valor_str = PyStr(Celulas(j)[ColunaDe("valor")])

\* C4: when date, description or amount does not resolve against the header,
\* analisar_transacoes returns an empty list with bank id and account id
\* None, whatever the rows, and no output file is written.
C4_CabecalhoIncompleto ==
  (AnaliseChamada /\ ~ObrigatoriosResolvem) =>
     /\ pc # "erro"
     /\ lista_transacoes = PyList(<<>>)
     /\ bank_id = PyNone
     /\ acct_id = PyNone
     /\ ~saida.escrito

\* C4 happens: a run with data rows and a bank column, but no amount column,
\* has ended
C4_Witness ==
  /\ AnaliseChamada /\ pc = "fim"
  /\ Resolve("bank_id") /\ Resolve("data") /\ ~Resolve("valor")
  /\ Len(linhas_processadas.v) >= 2

\* C5: the returned transactions, and the STMTTRN blocks in the same order,
\* are non-decreasing by date, and transactions of one date are in the order
\* of their rows.
C5_OrdenadoEstavel ==
  AnaliseRetornou =>
     /\ \A j, k \in 1..Len(lista_transacoes.v) :
          j < k =>
             LET a == lista_transacoes.v[j]
                 b == lista_transacoes.v[k]
             IN /\ ChaveData(a.data) <= ChaveData(b.data)
                /\ ChaveData(a.data) = ChaveData(b.data) => a.linha < b.linha
     /\ saida.escrito =>
          /\ Len(saida.stmttrn) = Len(lista_transacoes.v)
          /\ \A j \in 1..Len(saida.stmttrn) :
               /\ saida.stmttrn[j].fitid = lista_transacoes.v[j].fitid
               /\ j > 1 => DigitsVal(saida.stmttrn[j - 1].dtposted)
                             <= DigitsVal(saida.stmttrn[j].dtposted)

\* C5 happens: a file was written in which the transaction of a later row
\* comes before the transaction of an earlier row
C5_Witness ==
  /\ saida.escrito /\ pc = "fim"
  /\ \E j, k \in 1..Len(lista_transacoes.v) :
       /\ j < k
       /\ lista_transacoes.v[j].linha > lista_transacoes.v[k].linha
       /\ saida.stmttrn[j].fitid = lista_transacoes.v[j].fitid

\* C6: when the mandatory fields resolve, no skipped row has an entry in the
\* output, and the output has as many entries as there are repaired data rows
\* minus the skipped rows.
C6_ContagemDeEntradas ==
  (AnaliseChamada /\ ObrigatoriosResolvem /\ Terminou) =>
     /\ \A t \in {lista_transacoes.v[j] : j \in 1..Len(lista_transacoes.v)} :
          t.linha \notin ignoradas
     /\ Len(Entradas) = Len(linhas_processadas.v) - Cardinality(ignoradas)

\* the amount of the CSV in the row of transaction t
ValorDoCsv(t) == Float(Replace(lidos[t.linha + 1].valor_str.v, ",", ".")).v

\* C7: for credit-card the parsed amount is the negation of the CSV amount,
\* for bank it is the CSV amount; a block is CREDIT exactly when the parsed
\* amount is greater than zero, so a positive CSV amount is DEBIT for
\* credit-card and CREDIT for bank.
C7_SinalEDirecao ==
  AnaliseRetornou =>
     /\ \A j \in 1..Len(lista_transacoes.v) :
          LET t == lista_transacoes.v[j]
          IN /\ tipo_conta = "credito" => t.valor = Negativo(ValorDoCsv(t))
             /\ tipo_conta = "banco" => t.valor = ValorDoCsv(t)
     /\ \A j \in 1..Len(Entradas) :
          LET t == lista_transacoes.v[j]
          IN /\ Entradas[j].trntype \in {"CREDIT", "DEBIT"}
             /\ Entradas[j].trntype = "CREDIT" <=> Positivo(t.valor)
             /\ Positivo(ValorDoCsv(t)) =>
                  Entradas[j].trntype = (IF tipo_conta = "credito" THEN "DEBIT" ELSE "CREDIT")

\* C7 happens: a credit-card file was written with a positive CSV amount and
\* an amount of zero
C7_Witness ==
  /\ saida.escrito /\ pc = "fim" /\ tipo_conta = "credito"
  /\ \E j \in 1..Len(Entradas) :
       Positivo(ValorDoCsv(lista_transacoes.v[j])) /\ Entradas[j].trntype = "DEBIT"
  /\ \E j \in 1..Len(Entradas) :
       ValorDoCsv(lista_transacoes.v[j]).mag = 0 /\ Entradas[j].trntype = "DEBIT"

\* C8: the external id of a transaction is the cell of the transaction-id
\* column of its row when that field resolved and the cell is not blank, and
\* the empty string otherwise, for rows of any number of cells.
C8_IdExterno ==
  AnaliseRetornou =>
     \A j \in 1..Len(lista_transacoes.v) :
        LET t == lista_transacoes.v[j]
            cel == Celulas(t.linha + 1)
        IN t.id_transacao =
             (IF Resolve("id_transacao") /\ Len(cel) >= ColunaDe("id_transacao")
              THEN PyStr(cel[ColunaDe("id_transacao")])
              ELSE PyStr(<<>>))

\* the input file is missing, empty or unreadable
FalhaDeArquivo ==
  arquivo.estado \in {"ausente", "sem_permissao", "nao_utf8"} \/ arquivo.linhas = <<>>

\* C9: a missing, empty or unreadable input file is reported as a result and
\* not as a crash: the preprocessor returns (None, None), no transaction is
\* processed and no output file is written.
C9_FalhaDeArquivoSemExcecao ==
  (FalhaDeArquivo /\ Terminou) =>
     /\ pc # "erro"
     /\ pc = "fim" => (cabecalho = PyNone /\ linhas_processadas = PyNone)
     /\ lista_transacoes = Indefinido
     /\ ~saida.escrito

\* C10: within one run, two rows at different positions never give the same
\* text to the hash, so the identifiers of the records are pairwise distinct.
C10_FitidDistintos ==
  AnaliseRetornou =>
     \A j, k \in 1..Len(lista_transacoes.v) :
        j # k => lista_transacoes.v[j].fitid # lista_transacoes.v[k].fitid

====
